---- MODULE Spec2Model ----
(***************************************************************************)
(* cty-rs: the parser of the cty.dat prefix database (Cty::load) and the   *)
(* callsign resolver (Cty::lookup) of src/lib.rs.                          *)
(*                                                                         *)
(* A Rust String is modelled as the sequence of its UTF-8 bytes, each      *)
(* ASCII byte a TLA+ string of one character.  The two bytes of the one    *)
(* non-ASCII character of the model are "<C3>" (lead) and "<A9>"           *)
(* (continuation).  A u32 is a pair <<hi, lo>> of 16-bit limbs, so that    *)
(* the whole range 0 .. 2^32-1 is represented exactly.                     *)
(***************************************************************************)
EXTENDS Integers, Sequences, FiniteSets, TLC

(***************************************************************************)
(* Bounds of the model.                                                    *)
(***************************************************************************)
MaxLines == 3
MaxCallLen == 3

(***************************************************************************)
(* Machine constants.                                                      *)
(***************************************************************************)
Limb == 65536
MaxI32 == 2147483647
MinI32 == (-2147483647) - 1
SecondsPerHour == 3600
SecondsPerDay == 86400

(***************************************************************************)
(* str primitives                                                          *)
(***************************************************************************)
Lead == "<C3>"
Cont == "<A9>"
White == {" "}
Digits == {"0", "1", "2", "3", "4", "5", "6", "7", "8", "9"}

DigitVal(c) ==
  CASE c = "0" -> 0 [] c = "1" -> 1 [] c = "2" -> 2 [] c = "3" -> 3
    [] c = "4" -> 4 [] c = "5" -> 5 [] c = "6" -> 6 [] c = "7" -> 7
    [] c = "8" -> 8 [] c = "9" -> 9

\* str::is_char_boundary: offset i (0 .. len) does not fall inside a character
IsCharBoundary(s, i) ==
  \/ i = 0
  \/ i = Len(s)
  \/ i \in 1..(Len(s) - 1) /\ s[i + 1] # Cont

\* a byte sequence that is a well-formed String of the model's alphabet
IsUtf8(s) ==
  /\ \A i \in 1..Len(s) : s[i] = Lead => (i < Len(s) /\ s[i + 1] = Cont)
  /\ \A i \in 1..Len(s) : s[i] = Cont => (i > 1 /\ s[i - 1] = Lead)

\* 1-based index of the first character of s that is in cs, 0 when none
IndexOf(s, cs) ==
  IF \A i \in 1..Len(s) : s[i] \notin cs THEN 0
  ELSE CHOOSE i \in 1..Len(s) : s[i] \in cs /\ \A j \in 1..(i - 1) : s[j] \notin cs

\* 1-based index of the last character of s that is in cs, 0 when none
LastIndexOf(s, cs) ==
  IF \A i \in 1..Len(s) : s[i] \notin cs THEN 0
  ELSE CHOOSE i \in 1..Len(s) : s[i] \in cs /\ \A j \in (i + 1)..Len(s) : s[j] \notin cs

\* str::split(c): the fields between the occurrences of c (at least one field)
RECURSIVE Split(_, _)
Split(s, c) ==
  LET p == IndexOf(s, {c})
  IN IF p = 0 THEN <<s>>
     ELSE <<SubSeq(s, 1, p - 1)>> \o Split(SubSeq(s, p + 1, Len(s)), c)

\* str::trim_start_matches(c): every leading c removed
TrimStartMatches(s, cs) ==
  IF \A i \in 1..Len(s) : s[i] \in cs THEN <<>>
  ELSE LET p == CHOOSE i \in 1..Len(s) : s[i] \notin cs /\ \A j \in 1..(i - 1) : s[j] \in cs
       IN SubSeq(s, p, Len(s))

\* str::trim_end_matches(c): every trailing c removed
TrimEndMatches(s, cs) ==
  IF \A i \in 1..Len(s) : s[i] \in cs THEN <<>>
  ELSE LET p == CHOOSE i \in 1..Len(s) : s[i] \notin cs /\ \A j \in (i + 1)..Len(s) : s[j] \in cs
       IN SubSeq(s, 1, p)

\* str::trim: leading and trailing whitespace removed
Trim(s) == TrimEndMatches(TrimStartMatches(s, White), White)

\* str::starts_with(c)
StartsWith(s, c) == Len(s) > 0 /\ s[1] = c

MapTrim(ss) == [i \in 1..Len(ss) |-> Trim(ss[i])]

\* Iterator::filter(|s| !s.is_empty())
FilterNonEmpty(ss) == SelectSeq(ss, LAMBDA s : s # <<>>)

(***************************************************************************)
(* FromStr for u32, i32 and f32                                            *)
(***************************************************************************)
Ok(v) == [ok |-> TRUE, val |-> v]
Err(e) == [ok |-> FALSE, err |-> e]

U32(n) == <<n \div Limb, n % Limb>>

\* acc * 10 + d on 16-bit limbs; the high limb of the result is not reduced
RECURSIVE AccumulateU32(_, _)
AccumulateU32(acc, ds) ==
  IF ds = <<>> THEN Ok(acc)
  ELSE IF Head(ds) \notin Digits THEN Err("ParseIntError")
  ELSE LET low == acc[2] * 10 + DigitVal(Head(ds))
           high == acc[1] * 10 + (low \div Limb)
       IN IF high >= Limb THEN Err("ParseIntError")
          ELSE AccumulateU32(<<high, low % Limb>>, Tail(ds))

\* <u32 as FromStr>::from_str: an optional '+', then one or more ASCII digits,
\* the value at most u32::MAX
ParseU32(s) ==
  LET ds == IF StartsWith(s, "+") THEN Tail(s) ELSE s
  IN IF ds = <<>> THEN Err("ParseIntError") ELSE AccumulateU32(<<0, 0>>, ds)

\* checked accumulation of the digits; negative numbers accumulate downwards
RECURSIVE AccumulateI32(_, _, _)
AccumulateI32(acc, ds, neg) ==
  IF ds = <<>> THEN Ok(acc)
  ELSE IF Head(ds) \notin Digits THEN Err("ParseIntError")
  ELSE LET d == DigitVal(Head(ds))
       IN IF neg
          THEN IF acc < (MinI32 + d) \div 10 + (IF (MinI32 + d) % 10 = 0 THEN 0 ELSE 1)
               THEN Err("ParseIntError")
               ELSE AccumulateI32(acc * 10 - d, Tail(ds), neg)
          ELSE IF acc > (MaxI32 - d) \div 10
               THEN Err("ParseIntError")
               ELSE AccumulateI32(acc * 10 + d, Tail(ds), neg)

\* <i32 as FromStr>::from_str: an optional sign, then one or more ASCII digits,
\* the value within i32::MIN ..= i32::MAX
ParseI32(s) ==
  LET neg == StartsWith(s, "-")
      ds == IF StartsWith(s, "+") \/ StartsWith(s, "-") THEN Tail(s) ELSE s
  IN IF ds = <<>> THEN Err("ParseIntError") ELSE AccumulateI32(0, ds, neg)

RECURSIVE DigitsValue(_)
DigitsValue(ds) ==
  IF ds = <<>> THEN 0 ELSE DigitsValue(SubSeq(ds, 1, Len(ds) - 1)) * 10 + DigitVal(ds[Len(ds)])

\* the decimal m * 10^-e without trailing fractional zeros
RECURSIVE NormalF32(_, _)
NormalF32(m, e) ==
  IF e > 0 /\ m % 10 = 0 THEN NormalF32(m \div 10, e - 1) ELSE [m |-> m, e |-> e]

\* <f32 as FromStr>::from_str on the decimal notation without exponent:
\* an optional sign, digits with at most one '.', at least one digit.  The
\* value is the decimal m * 10^-e (a short decimal determines its f32).
\* Exponents, "inf" and "nan" do not occur in the numeric fields of the
\* model's input.
ParseF32(s) ==
  LET neg == StartsWith(s, "-")
      body == IF StartsWith(s, "+") \/ StartsWith(s, "-") THEN Tail(s) ELSE s
      p == IndexOf(body, {"."})
      int == IF p = 0 THEN body ELSE SubSeq(body, 1, p - 1)
      frac == IF p = 0 THEN <<>> ELSE SubSeq(body, p + 1, Len(body))
      ds == int \o frac
  IN IF ds = <<>> \/ \E i \in 1..Len(ds) : ds[i] \notin Digits
     THEN Err("ParseFloatError")
     ELSE LET v == NormalF32(DigitsValue(ds), Len(frac))
          IN Ok([m |-> IF neg THEN -v.m ELSE v.m, e |-> v.e])

\* i32 multiplication n * 3600 reduced modulo 2^32 (two's complement)
WrappingMul3600(n) ==
  LET lo == n % Limb
      hi == (n \div Limb) % Limb
      plo == lo * SecondsPerHour
      rlo == plo % Limb
      rhi == (hi * SecondsPerHour + (plo \div Limb)) % Limb
  IN IF rhi >= Limb \div 2 THEN (rhi - Limb) * Limb + rlo ELSE rhi * Limb + rlo

\* n * 3600 is not an i32
MulOverflows3600(n) ==
  n > MaxI32 \div SecondsPerHour \/ n < -(MaxI32 \div SecondsPerHour)

\* chrono FixedOffset::east_opt
EastOpt(secs) ==
  IF -SecondsPerDay < secs /\ secs < SecondsPerDay THEN Ok(secs) ELSE Err("Invalid timezone")

(***************************************************************************)
(* Entity and the table                                                    *)
(***************************************************************************)
\* impl Default for Entity
DefaultEntity ==
  [name |-> <<>>, cq |-> <<0, 0>>, itu |-> <<0, 0>>, continent |-> <<>>,
   lat |-> [m |-> 0, e |-> 0], lon |-> [m |-> 0, e |-> 0], timezone |-> 0,
   prefix |-> <<>>, waedc |-> FALSE, is_exact |-> FALSE]

\* Cty::default(): an empty HashMap<String, Entity>
DefaultEntities == [k \in {} |-> DefaultEntity]

\* HashMap::insert: the value of an existing key is replaced
Insert(entities, key, entity) ==
  [k \in (DOMAIN entities) \cup {key} |-> IF k = key THEN entity ELSE entities[k]]

(***************************************************************************)
(* The five override patterns (regex crate: leftmost match, greedy .* and  *)
(* \d+) as Regex::captures resolves them                                   *)
(***************************************************************************)
NoMatch == [matched |-> FALSE]

\* the length of the run of ASCII digits that s has from offset i on
RECURSIVE DigitRun(_, _)
DigitRun(s, i) ==
  IF i < Len(s) /\ s[i + 1] \in Digits THEN 1 + DigitRun(s, i + 1) ELSE 0

\* open, one or more digits, close, with open at index i
DigitsMatchAt(s, i, open, close) ==
  /\ s[i] = open
  /\ DigitRun(s, i) > 0
  /\ i + DigitRun(s, i) < Len(s)
  /\ s[i + DigitRun(s, i) + 1] = close

\* the capture groups of the match that starts at the least index of starts
DigitsCapture(s, starts) ==
  IF starts = {} THEN NoMatch
  ELSE [matched |-> TRUE,
        cap |-> <<SubSeq(s, (CHOOSE x \in starts : \A y \in starts : x <= y) + 1,
                         (CHOOSE x \in starts : \A y \in starts : x <= y)
                           + DigitRun(s, CHOOSE x \in starts : \A y \in starts : x <= y))>>]

\* "\((\d+)\)" and "\[(\d+)\]": the leftmost open, digits, close.  (\d also
\* matches the non-ASCII decimal digits, which the model's input does not hold.)
CaptureDigits(s, open, close) ==
  DigitsCapture(s, {i \in 1..Len(s) : DigitsMatchAt(s, i, open, close)})

\* the capture group between index i and index k, when both were found
BetweenCapture(s, i, k) ==
  IF i = 0 \/ k <= i THEN NoMatch
  ELSE [matched |-> TRUE, cap |-> <<SubSeq(s, i + 1, k - 1)>>]

\* "\{(.*)\}" and "~(.*)~": from the first open to the last close after it
CaptureBetween(s, open, close) ==
  BetweenCapture(s, IndexOf(s, {open}), LastIndexOf(s, {close}))

\* the two capture groups between indices i, j and k, when all were found
LatLonCapture(s, i, j, k) ==
  IF i = 0 \/ j <= i THEN NoMatch
  ELSE [matched |-> TRUE, cap |-> <<SubSeq(s, i + 1, j - 1), SubSeq(s, j + 1, k - 1)>>]

\* "<(.*)/(.*)>": from the first '<' to the last '>', split at the last '/'
\* between them
CaptureLatLon(s) ==
  LatLonCapture(s, IndexOf(s, {"<"}),
                LastIndexOf(SubSeq(s, 1, LastIndexOf(s, {">"}) - 1), {"/"}),
                LastIndexOf(s, {">"}))

cq_regex(s) == CaptureDigits(s, "(", ")")
itu_regex(s) == CaptureDigits(s, "[", "]")
latlon_regex(s) == CaptureLatLon(s)
continent_regex(s) == CaptureBetween(s, "{", "}")
timezone_regex(s) == CaptureBetween(s, "~", "~")

(***************************************************************************)
(* Cty::load, one line at a time                                           *)
(***************************************************************************)
Done(v) == [tag |-> "Ok", val |-> v]
Fail(e) == [tag |-> "Err", err |-> e]
Panic == [tag |-> "Panic"]

\* the first position of one of ( [ # ~ , or the length of the token
OverridePos(alias) ==
  LET p == IndexOf(alias, {"(", "[", "#", "~"})
  IN IF p = 0 THEN Len(alias) ELSE p - 1

\* the Entity literal of a primary record; its fields are evaluated in the
\* order written, an index past the end of parts panics
PrimaryEntity(parts) ==
  IF ~ParseU32(parts[2]).ok THEN Fail(ParseU32(parts[2]).err)
  ELSE IF ~ParseU32(parts[3]).ok THEN Fail(ParseU32(parts[3]).err)
  ELSE IF Len(parts) < 4 THEN Panic
  ELSE IF Len(parts) < 5 THEN Panic
  ELSE IF ~ParseF32(parts[5]).ok THEN Fail(ParseF32(parts[5]).err)
  ELSE IF Len(parts) < 6 THEN Panic
  ELSE IF ~ParseF32(parts[6]).ok THEN Fail(ParseF32(parts[6]).err)
  ELSE IF ~EastOpt(0).ok THEN Fail(EastOpt(0).err)
  ELSE IF Len(parts) < 8 THEN Panic
  ELSE Done([name |-> parts[1], cq |-> ParseU32(parts[2]).val,
             itu |-> ParseU32(parts[3]).val, continent |-> parts[4],
             lat |-> ParseF32(parts[5]).val, lon |-> ParseF32(parts[6]).val,
             timezone |-> EastOpt(0).val,
             prefix |-> TrimStartMatches(parts[8], {"*"}),
             waedc |-> StartsWith(parts[8], "*"), is_exact |-> FALSE])

\* the tokens of an alias line
Aliases(line) == MapTrim(FilterNonEmpty(Split(TrimEndMatches(line, {";"}), ",")))

\* entity.cq = ...parse::<u32>()?
SetCq(entity, v) ==
  IF v.ok THEN Done([entity EXCEPT !.cq = v.val]) ELSE Fail(v.err)

\* the (n) override
OverrideCq(r, overrides) ==
  IF r.tag # "Ok" \/ ~cq_regex(overrides).matched THEN r
  ELSE SetCq(r.val, ParseU32(cq_regex(overrides).cap[1]))

\* entity.itu = ...parse::<u32>()?
SetItu(entity, v) ==
  IF v.ok THEN Done([entity EXCEPT !.itu = v.val]) ELSE Fail(v.err)

\* the [n] override
OverrideItu(r, overrides) ==
  IF r.tag # "Ok" \/ ~itu_regex(overrides).matched THEN r
  ELSE SetItu(r.val, ParseU32(itu_regex(overrides).cap[1]))

\* entity.lat = ...parse::<f32>()?; entity.lon = ...parse::<f32>()?
SetLatLon(entity, lat, lon) ==
  IF ~lat.ok THEN Fail(lat.err)
  ELSE IF ~lon.ok THEN Fail(lon.err)
  ELSE Done([entity EXCEPT !.lat = lat.val, !.lon = lon.val])

\* the <lat/lon> override
OverrideLatLon(r, overrides) ==
  IF r.tag # "Ok" \/ ~latlon_regex(overrides).matched THEN r
  ELSE SetLatLon(r.val, ParseF32(latlon_regex(overrides).cap[1]),
                 ParseF32(latlon_regex(overrides).cap[2]))

\* the {code} override
OverrideContinent(r, overrides) ==
  IF r.tag # "Ok" \/ ~continent_regex(overrides).matched THEN r
  ELSE Done([r.val EXCEPT !.continent = continent_regex(overrides).cap[1]])

\* FixedOffset::east_opt(n * 3600).ok_or("Invalid timezone")?: the product
\* panics when the build checks overflow and wraps otherwise
HoursEast(n, checks) ==
  IF ~n.ok THEN Fail(n.err)
  ELSE IF MulOverflows3600(n.val) /\ checks THEN Panic
  ELSE IF ~EastOpt(WrappingMul3600(n.val)).ok THEN Fail(EastOpt(WrappingMul3600(n.val)).err)
  ELSE Done(EastOpt(WrappingMul3600(n.val)).val)

\* entity.timezone = ...
SetTimezone(entity, tz) ==
  IF tz.tag # "Ok" THEN tz ELSE Done([entity EXCEPT !.timezone = tz.val])

\* the ~n~ override
OverrideTimezone(r, overrides, checks) ==
  IF r.tag # "Ok" \/ ~timezone_regex(overrides).matched THEN r
  ELSE SetTimezone(r.val, HoursEast(ParseI32(timezone_regex(overrides).cap[1]), checks))

\* the key and the entity that cty.entities.insert is called with
KeyedBy(override_alias, r) ==
  IF r.tag # "Ok" THEN r ELSE Done([key |-> override_alias, entity |-> r.val])

\* the five overrides in the order of the code, each applied to the result
\* of the one before it
ApplyOverrides(entity, override_alias, overrides, checks) ==
  KeyedBy(override_alias,
          OverrideTimezone(
            OverrideContinent(
              OverrideLatLon(
                OverrideItu(
                  OverrideCq(Done(entity), overrides),
                  overrides),
                overrides),
              overrides),
            overrides, checks))

\* override_alias = &alias[..pos], overrides = &alias[pos..]
SplitAlias(entity, alias, pos, checks) ==
  ApplyOverrides(entity, SubSeq(alias, 1, pos), SubSeq(alias, pos + 1, Len(alias)), checks)

\* the body of `for alias in aliases`: the key and the entity of one token
DecodeAlias(base, token, checks) ==
  SplitAlias([base EXCEPT !.is_exact = StartsWith(token, "=")],
             TrimStartMatches(token, {"="}),
             OverridePos(TrimStartMatches(token, {"="})), checks)

\* `for alias in aliases`: each token inserted in turn, stopping at the first
\* error or panic
RECURSIVE InsertAliases(_, _, _, _)
InsertDecoded(entities, base, aliases, checks, r) ==
  IF r.tag # "Ok" THEN r
  ELSE InsertAliases(Insert(entities, r.val.key, r.val.entity), base, Tail(aliases), checks)

InsertAliases(entities, base, aliases, checks) ==
  IF aliases = <<>> THEN Done(entities)
  ELSE InsertDecoded(entities, base, aliases, checks, DecodeAlias(base, Head(aliases), checks))

(***************************************************************************)
(* Cty::lookup                                                             *)
(***************************************************************************)
None == [tag |-> "None"]
Some(key, entity) == [tag |-> "Some", key |-> key, entity |-> entity]

\* (1..=len).rev().find_map(|i| entities.get(&callsign[..i])), from length i
\* down; slicing off a character boundary panics
RECURSIVE PrefixScan(_, _, _)
PrefixScan(entities, callsign, i) ==
  IF i < 1 THEN None
  ELSE IF ~IsCharBoundary(callsign, i) THEN Panic
  ELSE IF SubSeq(callsign, 1, i) \in DOMAIN entities
       THEN Some(SubSeq(callsign, 1, i), entities[SubSeq(callsign, 1, i)])
       ELSE PrefixScan(entities, callsign, i - 1)

\* entities.get(callsign).filter(|e| e.is_exact)
ExactGet(entities, callsign) ==
  IF callsign \in DOMAIN entities /\ entities[callsign].is_exact
  THEN Some(callsign, entities[callsign]) ELSE None

\* Option::or; its argument has been evaluated, and may have panicked, when
\* it is called
OptionOr(a, b) ==
  IF b.tag = "Panic" THEN Panic
  ELSE IF a.tag = "Some" THEN a
  ELSE b

\* Cty::lookup with the scan over 1..len in place of 1..=len
LookupExclusiveRange(entities, callsign) ==
  OptionOr(ExactGet(entities, callsign), PrefixScan(entities, callsign, Len(callsign) - 1))

\* Cty::lookup.  The key of the returned reference is kept with it.
Lookup(entities, callsign) ==
  OptionOr(ExactGet(entities, callsign), PrefixScan(entities, callsign, Len(callsign)))

(***************************************************************************)
(* The input: the lines a file may hold.  ParserLines exercises the record *)
(* parser and the override decoder, LookupLines builds the tables that     *)
(* lookup is called on.                                                    *)
(***************************************************************************)
ParserLines ==
  {
    \* "G:5:10:EU:1.0:2.0:0.0:B:"
    <<"G", ":", "5", ":", "1", "0", ":", "E", "U", ":", "1", ".", "0", ":", "2", ".", "0", ":", "0", ".", "0", ":", "B", ":">>,
    \* "H: 3: 4:AS:-3.5:7:8.0:*B7:"
    <<"H", ":", " ", "3", ":", " ", "4", ":", "A", "S", ":", "-", "3", ".", "5", ":", "7", ":", "8", ".", "0", ":", "*", "B", "7", ":">>,
    \* "G:x:10:EU:1.0:2.0:0.0:B:"
    <<"G", ":", "x", ":", "1", "0", ":", "E", "U", ":", "1", ".", "0", ":", "2", ".", "0", ":", "0", ".", "0", ":", "B", ":">>,
    \* "G:5:10"
    <<"G", ":", "5", ":", "1", "0">>,
    \* "G:5:10:EU:1.0:2.0:0.0"
    <<"G", ":", "5", ":", "1", "0", ":", "E", "U", ":", "1", ".", "0", ":", "2", ".", "0", ":", "0", ".", "0">>,
    \* "G:5:10:EU:x"
    <<"G", ":", "5", ":", "1", "0", ":", "E", "U", ":", "x">>,
    \* " H,=B7H;"
    <<" ", "H", ",", "=", "B", "7", "H", ";">>,
    \* "=H(7)[8]<3.0/4.0>{AS}~8~;"
    <<"=", "H", "(", "7", ")", "[", "8", "]", "<", "3", ".", "0", "/", "4", ".", "0", ">", "{", "A", "S", "}", "~", "8", "~", ";">>,
    \* "H~-5~{AS}[8](7);"
    <<"H", "~", "-", "5", "~", "{", "A", "S", "}", "[", "8", "]", "(", "7", ")", ";">>,
    \* "H{AS}(7);"
    <<"H", "{", "A", "S", "}", "(", "7", ")", ";">>,
    \* "H<3/4>;"
    <<"H", "<", "3", "/", "4", ">", ";">>,
    \* "H(ab);"
    <<"H", "(", "a", "b", ")", ";">>,
    \* "H[x];"
    <<"H", "[", "x", "]", ";">>,
    \* "H(7)<a/b>;"
    <<"H", "(", "7", ")", "<", "a", "/", "b", ">", ";">>,
    \* "H~z~;"
    <<"H", "~", "z", "~", ";">>,
    \* "H(99999999999);"
    <<"H", "(", "9", "9", "9", "9", "9", "9", "9", "9", "9", "9", "9", ")", ";">>,
    \* "H~1193047~;"
    <<"H", "~", "1", "1", "9", "3", "0", "4", "7", "~", ";">>,
    \* "H~600000~;"
    <<"H", "~", "6", "0", "0", "0", "0", "0", "~", ";">>,
    \* "H~24~;"
    <<"H", "~", "2", "4", "~", ";">>,
    \* ""
    <<>>
  }

LookupLines ==
  {
    \* "G:5:10:EU:1.0:2.0:0.0:B:"
    <<"G", ":", "5", ":", "1", "0", ":", "E", "U", ":", "1", ".", "0", ":", "2", ".", "0", ":", "0", ".", "0", ":", "B", ":">>,
    \* "B7,=B7H;"
    <<"B", "7", ",", "=", "B", "7", "H", ";">>,
    \* "=B7, ;"
    <<"=", "B", "7", ",", " ", ";">>,
    \* "=;"
    <<"=", ";">>,
    \* "7<C3><A9>;"
    <<"7", "<C3>", "<A9>", ";">>
  }

\* the callsigns lookup is called with: every String of at most MaxCallLen
\* bytes over B, 7, H and the two-byte character
CallsignBytes == {"B", "7", "H", Lead, Cont}

Callsigns ==
  {s \in UNION {[1..n -> CallsignBytes] : n \in 0..MaxCallLen} : IsUtf8(s)}

(***************************************************************************)
(* State                                                                   *)
(***************************************************************************)
VARIABLES
  pc,              \* "loading", "returned" or "panicked"
  lines,           \* the lines read from the file so far
  cty,             \* cty.entities of the table under construction
  last_entity,     \* the current base entity
  result,          \* what load returned: Ok(Cty) or Err(error)
  lookup,          \* the last call of lookup on the loaded table and its result
  overflow_checks  \* whether the build checks arithmetic overflow

vars == <<pc, lines, cty, last_entity, result, lookup, overflow_checks>>

NotReturned == [tag |-> "None"]
NoLookup == [tag |-> "None"]

Init ==
  /\ pc = "loading"
  /\ lines = <<>>
  /\ cty = DefaultEntities
  /\ last_entity = DefaultEntity
  /\ result = NotReturned
  /\ lookup = NoLookup
  /\ overflow_checks \in BOOLEAN

\* parts.len() > 2
IsPrimary(line) == Len(Split(line, ":")) > 2

\* the record is inserted under its prefix and becomes the base entity
InsertPrimary(entities, r) ==
  IF r.tag # "Ok" THEN r
  ELSE Done([entities |-> Insert(entities, r.val.prefix, r.val), last_entity |-> r.val])

\* the record is inserted under its prefix, the base entity is kept
InsertPrimaryStaleBase(entities, base, r) ==
  IF r.tag # "Ok" THEN r
  ELSE Done([entities |-> Insert(entities, r.val.prefix, r.val), last_entity |-> base])

\* the primary branch with the base entity not replaced
LoadPrimaryStaleBase(entities, base, line) ==
  InsertPrimaryStaleBase(entities, base, PrimaryEntity(MapTrim(Split(line, ":"))))

\* the primary branch of the loop body
LoadPrimary(entities, base, line) ==
  InsertPrimary(entities, PrimaryEntity(MapTrim(Split(line, ":"))))

\* an alias line leaves the base entity as it is
KeepBase(r, base) ==
  IF r.tag # "Ok" THEN r ELSE Done([entities |-> r.val, last_entity |-> base])

\* the alias branch of the loop body
LoadAliases(entities, base, line, checks) ==
  KeepBase(InsertAliases(entities, base, Aliases(line), checks), base)

\* a line that fails is skipped
SkipErr(r, entities, base) ==
  IF r.tag = "Err" THEN Done([entities |-> entities, last_entity |-> base]) ELSE r

\* the loop body with a line that fails skipped instead of returned with ?
LoadLineSkipErr(entities, base, line, checks) ==
  SkipErr(IF IsPrimary(line) THEN LoadPrimary(entities, base, line)
          ELSE LoadAliases(entities, base, line, checks), entities, base)

\* the body of `for line in lines`; an Err is what the ? operator returns
\* from load
LoadLine(entities, base, line, checks) ==
  IF IsPrimary(line) THEN LoadPrimary(entities, base, line)
  ELSE LoadAliases(entities, base, line, checks)

\* the effect r of one line on load: continue, return the error, or panic.
\* The locals of load are dropped when it is left.
Continue(line, r) ==
  /\ lines' = Append(lines, line)
  /\ IF r.tag = "Ok"
     THEN /\ cty' = r.val.entities
          /\ last_entity' = r.val.last_entity
          /\ UNCHANGED <<pc, result>>
     ELSE /\ cty' = DefaultEntities
          /\ last_entity' = DefaultEntity
          /\ pc' = IF r.tag = "Err" THEN "returned" ELSE "panicked"
          /\ result' = IF r.tag = "Err" THEN r ELSE NotReturned
  /\ UNCHANGED <<lookup, overflow_checks>>

Step(line) == Continue(line, LoadLine(cty, last_entity, line, overflow_checks))

\* load reads a primary record
ReadPrimary(input) ==
  /\ pc = "loading"
  /\ Len(lines) < MaxLines
  /\ \E line \in input : IsPrimary(line) /\ Step(line)

\* load reads an alias line
ReadAliases(input) ==
  /\ pc = "loading"
  /\ Len(lines) < MaxLines
  /\ \E line \in input : ~IsPrimary(line) /\ Step(line)

\* File::open or reading a line fails: read_lines(filename)? and line?
ReadError ==
  /\ pc = "loading"
  /\ pc' = "returned"
  /\ result' = Fail("io::Error")
  /\ cty' = DefaultEntities
  /\ last_entity' = DefaultEntity
  /\ UNCHANGED <<lines, lookup, overflow_checks>>

\* the end of the file: Ok(cty)
Return ==
  /\ pc = "loading"
  /\ pc' = "returned"
  /\ result' = Done([entities |-> cty])
  /\ cty' = DefaultEntities
  /\ last_entity' = DefaultEntity
  /\ UNCHANGED <<lines, lookup, overflow_checks>>

\* a caller resolves a callsign, or one of the table's keys, with the table
\* load returned.  lookup only reads the table: one call in a behaviour shows
\* every result it can have.
LookupCall ==
  /\ pc = "returned"
  /\ result.tag = "Ok"
  /\ lookup = NoLookup
  /\ \E callsign \in Callsigns \cup DOMAIN result.val.entities :
       /\ lookup' = [tag |-> "Call", callsign |-> callsign,
                     out |-> Lookup(result.val.entities, callsign)]
       /\ pc' = IF lookup'.out.tag = "Panic" THEN "panicked" ELSE pc
  /\ UNCHANGED <<lines, cty, last_entity, result, overflow_checks>>

Next ==
  \/ ReadPrimary(ParserLines)
  \/ ReadAliases(ParserLines)
  \/ ReadError
  \/ Return

Spec == Init /\ [][Next]_vars

NextLookup ==
  \/ ReadPrimary(LookupLines)
  \/ ReadAliases(LookupLines)
  \/ ReadError
  \/ Return
  \/ LookupCall

SpecLookup == Init /\ [][NextLookup]_vars

(***************************************************************************)
(* Properties                                                              *)
(***************************************************************************)
\* the table a caller holds after a successful load
Table == result.val.entities

\* C4: when a line produces an error, load stops at that line (it is the
\* last line read), returns exactly that error, and the value returned holds
\* no table, whatever the earlier lines inserted.
LoadAllOrNothing ==
  \A i \in 1..Len(lines) :
    \A r \in {IF IsPrimary(lines[i])
              THEN PrimaryEntity(MapTrim(Split(lines[i], ":")))
              ELSE InsertAliases(DefaultEntities, DefaultEntity, Aliases(lines[i]),
                                 overflow_checks)} :
      r.tag = "Err" =>
         /\ i = Len(lines)
         /\ pc = "returned"
         /\ result = Fail(r.err)
         /\ DOMAIN result = {"tag", "err"}

\* C4 witness: a primary record with a non-numeric CQ zone after two
\* well-formed lines that inserted entries
LoadAllOrNothingWitness ==
  /\ Len(lines) = 3
  /\ PrimaryEntity(MapTrim(Split(lines[1], ":"))).tag = "Ok"
  /\ ~IsPrimary(lines[2]) /\ Aliases(lines[2]) # <<>>
  /\ IsPrimary(lines[3]) /\ ~ParseU32(MapTrim(Split(lines[3], ":"))[2]).ok
  /\ pc = "returned"
  /\ result = Fail("ParseIntError")

\* the last line read
LastLine == lines[Len(lines)]

\* the state is the one load is in right after the last line was processed:
\* still loading, panicked, or returned with the error of that line
JustRead ==
  /\ lines # <<>>
  /\ \/ pc \in {"loading", "panicked"}
     \/ pc = "returned" /\ result.tag = "Err" /\ result.err # "io::Error"

(***************************************************************************)
(* The alias token as section 4.2 of the specification describes it:       *)
(* ["="] keytext overrides, the overrides a concatenation of annotations   *)
(* (n) [n] <lat/lon> {code} ~n~ in any order.                              *)
(***************************************************************************)
AnnotationOpeners == {"(", "[", "<", "{", "~"}

Closer(open) ==
  CASE open = "(" -> ")" [] open = "[" -> "]" [] open = "<" -> ">"
    [] open = "{" -> "}" [] open = "~" -> "~"

\* the token without its exact marker
Unmarked(token) == TrimStartMatches(token, {"="})

\* the text before the first annotation, whichever kind it is
KeyText(token) ==
  IF IndexOf(Unmarked(token), AnnotationOpeners) = 0 THEN Unmarked(token)
  ELSE SubSeq(Unmarked(token), 1, IndexOf(Unmarked(token), AnnotationOpeners) - 1)

\* the text from the first annotation on
AnnotationText(token) ==
  SubSeq(Unmarked(token), Len(KeyText(token)) + 1, Len(Unmarked(token)))

\* the annotations of s, one after the other, as [kind, text]; kind "?" marks
\* text that is not an annotation
RECURSIVE Annotations(_)
Annotations(s) ==
  IF s = <<>> THEN <<>>
  ELSE IF s[1] \notin AnnotationOpeners \/ IndexOf(Tail(s), {Closer(s[1])}) = 0
       THEN <<[kind |-> "?", text |-> s]>>
       ELSE <<[kind |-> s[1], text |-> SubSeq(s, 2, IndexOf(Tail(s), {Closer(s[1])}))]>>
            \o Annotations(SubSeq(s, IndexOf(Tail(s), {Closer(s[1])}) + 2, Len(s)))

\* the token's annotation of a kind, <<>> when it has none
AnnotationsOf(token, kind) ==
  SelectSeq(Annotations(AnnotationText(token)), LAMBDA a : a.kind = kind)

\* the two numbers of a <lat/lon> annotation
LatText(a) == SubSeq(a.text, 1, IndexOf(a.text, {"/"}) - 1)
LonText(a) == SubSeq(a.text, IndexOf(a.text, {"/"}) + 1, Len(a.text))

\* the content of a numeric annotation parses as the number its kind requires
NumericContentParses(a) ==
  CASE a.kind = "(" -> ParseU32(a.text).ok
    [] a.kind = "[" -> ParseU32(a.text).ok
    [] a.kind = "<" -> /\ IndexOf(a.text, {"/"}) # 0
                       /\ ParseF32(LatText(a)).ok
                       /\ ParseF32(LonText(a)).ok
    [] a.kind = "~" -> ParseI32(a.text).ok
    [] OTHER -> TRUE

\* the token is a key followed by annotations only, each kind at most once
IsAnnotated(token) ==
  /\ \A i \in 1..Len(Annotations(AnnotationText(token))) :
       Annotations(AnnotationText(token))[i].kind # "?"
  /\ \A kind \in AnnotationOpeners : Len(AnnotationsOf(token, kind)) <= 1

\* the token is of the grammar and every number in it is one that can be
\* stored: the offset is less than a day
IsWellFormed(token) ==
  /\ IsAnnotated(token)
  /\ \A i \in 1..Len(Annotations(AnnotationText(token))) :
       NumericContentParses(Annotations(AnnotationText(token))[i])
  /\ \A i \in 1..Len(AnnotationsOf(token, "~")) :
       /\ ParseI32(AnnotationsOf(token, "~")[i].text).val > -24
       /\ ParseI32(AnnotationsOf(token, "~")[i].text).val < 24

\* the entity section 4.2 gives a well-formed token over a base entity
Overridden(base, token) ==
  [name |-> base.name,
   prefix |-> base.prefix,
   waedc |-> base.waedc,
   is_exact |-> StartsWith(token, "="),
   cq |-> IF AnnotationsOf(token, "(") = <<>> THEN base.cq
          ELSE ParseU32(AnnotationsOf(token, "(")[1].text).val,
   itu |-> IF AnnotationsOf(token, "[") = <<>> THEN base.itu
           ELSE ParseU32(AnnotationsOf(token, "[")[1].text).val,
   lat |-> IF AnnotationsOf(token, "<") = <<>> THEN base.lat
           ELSE ParseF32(LatText(AnnotationsOf(token, "<")[1])).val,
   lon |-> IF AnnotationsOf(token, "<") = <<>> THEN base.lon
           ELSE ParseF32(LonText(AnnotationsOf(token, "<")[1])).val,
   continent |-> IF AnnotationsOf(token, "{") = <<>> THEN base.continent
                 ELSE AnnotationsOf(token, "{")[1].text,
   timezone |-> IF AnnotationsOf(token, "~") = <<>> THEN base.timezone
                ELSE ParseI32(AnnotationsOf(token, "~")[1].text).val * SecondsPerHour]

(***************************************************************************)
(* Cty::lookup                                                             *)
(***************************************************************************)
\* the lengths 1 .. len at which a prefix of the callsign is a key
PrefixLengths(entities, callsign) ==
  {n \in 1..Len(callsign) : SubSeq(callsign, 1, n) \in DOMAIN entities}

\* the longest prefix of the callsign that is a key
LongestPrefix(entities, callsign) ==
  SubSeq(callsign, 1, CHOOSE n \in PrefixLengths(entities, callsign) :
                        \A m \in PrefixLengths(entities, callsign) : m <= n)

\* C1: lookup returns the entry under the full callsign when that entry is
\* flagged exact; otherwise the entry under the longest prefix of length
\* len .. 1 that is a key; and no match exactly when no prefix of length
\* 1 .. len is a key.
LookupLongestPrefix ==
  lookup.tag = "Call" =>
    /\ lookup.out.tag \in {"Some", "None"}
    /\ (lookup.callsign \in DOMAIN Table /\ Table[lookup.callsign].is_exact)
         => lookup.out = Some(lookup.callsign, Table[lookup.callsign])
    /\ (/\ ~(lookup.callsign \in DOMAIN Table /\ Table[lookup.callsign].is_exact)
        /\ PrefixLengths(Table, lookup.callsign) # {})
         => lookup.out = Some(LongestPrefix(Table, lookup.callsign),
                              Table[LongestPrefix(Table, lookup.callsign)])
    /\ lookup.out.tag = "None" <=> PrefixLengths(Table, lookup.callsign) = {}

\* C2: an entry flagged exact is never the result of lookup for a callsign
\* longer than its key.
ExactNeverMatchesAsPrefix ==
  (lookup.tag = "Call" /\ lookup.out.tag = "Some"
     /\ Len(lookup.callsign) > Len(lookup.out.key))
    => ~lookup.out.entity.is_exact

\* C3: after a successful load, lookup of a key of the table (the keys the
\* load inserted) returns the entry the table holds under that key (the last
\* one inserted under it).
LookupRoundTrip ==
  (lookup.tag = "Call" /\ lookup.callsign \in DOMAIN Table)
    => lookup.out = Some(lookup.callsign, Table[lookup.callsign])

\* the table with the is_exact flags replaced by those of flags
WithFlags(entities, flags) ==
  [k \in DOMAIN entities |-> [entities[k] EXCEPT !.is_exact = flags[k]]]

\* C10: for a non-empty callsign, lookup selects the same key (or no key, or
\* panics alike) on every table that differs from the loaded one only in the
\* is_exact flags.
ExactFlagIrrelevant ==
  (lookup.tag = "Call" /\ lookup.callsign # <<>>) =>
    \A flags \in [DOMAIN Table -> BOOLEAN] :
      /\ Lookup(WithFlags(Table, flags), lookup.callsign).tag = lookup.out.tag
      /\ lookup.out.tag = "Some" =>
           Lookup(WithFlags(Table, flags), lookup.callsign).key = lookup.out.key

\* C10 witness: the callsign is a key flagged exact, a shorter prefix of it is
\* a key too, and lookup returned the entry of the full callsign
ExactFlagIrrelevantWitness ==
  /\ lookup.tag = "Call"
  /\ lookup.callsign # <<>>
  /\ lookup.callsign \in DOMAIN Table
  /\ Table[lookup.callsign].is_exact
  /\ \E n \in 1..(Len(lookup.callsign) - 1) : SubSeq(lookup.callsign, 1, n) \in DOMAIN Table
  /\ lookup.out = Some(lookup.callsign, Table[lookup.callsign])

(***************************************************************************)
(* Cty::load                                                               *)
(***************************************************************************)
\* C5: a line classified as a primary record that has fewer than 8 fields
\* makes load return an error value; load does not panic on it and does not
\* go on.
ShortPrimaryIsError ==
  (JustRead /\ IsPrimary(LastLine) /\ Len(Split(LastLine, ":")) < 8)
    => (pc = "returned" /\ result.tag = "Err")

\* the token at index n of a line is the last of the line with its key text
LastOfKeyText(tokens, n) ==
  \A m \in (n + 1)..Len(tokens) : KeyText(tokens[m]) # KeyText(tokens[n])

\* C6: a well-formed token ["="] keytext overrides, the annotations in any
\* order, is inserted under exactly keytext, every annotated field set to the
\* annotated value and every other field that of the base entity.
AliasOverridesAnyOrder ==
  (pc = "loading" /\ lines # <<>> /\ ~IsPrimary(LastLine)) =>
    \A n \in 1..Len(Aliases(LastLine)) :
      (IsWellFormed(Aliases(LastLine)[n]) /\ LastOfKeyText(Aliases(LastLine), n)) =>
        /\ KeyText(Aliases(LastLine)[n]) \in DOMAIN cty
        /\ cty[KeyText(Aliases(LastLine)[n])] = Overridden(last_entity, Aliases(LastLine)[n])

\* the token carries a ~n~ annotation whose n is an i32, and is of the
\* grammar otherwise
HasHours(token) ==
  /\ IsAnnotated(token)
  /\ Len(AnnotationsOf(token, "~")) = 1
  /\ \A i \in 1..Len(Annotations(AnnotationText(token))) :
       NumericContentParses(Annotations(AnnotationText(token))[i])

Hours(token) == ParseI32(AnnotationsOf(token, "~")[1].text).val

\* C8: a token with a ~n~ annotation, n an i32, either is stored with a UTC
\* offset of exactly n * 3600 seconds or, n * 3600 being a day or more in
\* magnitude, fails the load with the invalid-timezone error.
HoursStoredExactly ==
  (JustRead /\ ~IsPrimary(LastLine) /\ Len(Aliases(LastLine)) = 1
     /\ HasHours(Aliases(LastLine)[1])) =>
    \/ /\ pc = "loading"
       /\ KeyText(Aliases(LastLine)[1]) \in DOMAIN cty
       /\ cty[KeyText(Aliases(LastLine)[1])].timezone \div SecondsPerHour
            = Hours(Aliases(LastLine)[1])
       /\ cty[KeyText(Aliases(LastLine)[1])].timezone % SecondsPerHour = 0
    \/ /\ pc = "returned"
       /\ result = Fail("Invalid timezone")
       /\ (Hours(Aliases(LastLine)[1]) >= 24 \/ Hours(Aliases(LastLine)[1]) <= -24)

\* the token has an annotation of a numeric kind whose content does not parse
HasBadNumber(token) ==
  \E i \in 1..Len(Annotations(AnnotationText(token))) :
    ~NumericContentParses(Annotations(AnnotationText(token))[i])

\* C9: a line with a token that has a numeric annotation whose content does
\* not parse fails the load with a format error; the token is never accepted.
BadOverrideIsError ==
  (JustRead /\ ~IsPrimary(LastLine)
     /\ \E n \in 1..Len(Aliases(LastLine)) : HasBadNumber(Aliases(LastLine)[n])) =>
    /\ pc = "returned"
    /\ result.tag = "Err"
    /\ result.err \in {"ParseIntError", "ParseFloatError"}

\* the key load inserts a token under, and the text it scans for overrides
InsertKey(token) == SubSeq(Unmarked(token), 1, OverridePos(Unmarked(token)))
Scanned(token) ==
  SubSeq(Unmarked(token), OverridePos(Unmarked(token)) + 1, Len(Unmarked(token)))

\* the entity of the nearest primary record among the lines read
NearestPrimary ==
  PrimaryEntity(MapTrim(Split(
    lines[CHOOSE j \in 1..Len(lines) :
            IsPrimary(lines[j]) /\ \A i \in (j + 1)..Len(lines) : ~IsPrimary(lines[i])],
    ":"))).val

\* an entry made from a token has, in each field the token does not override,
\* the value of the base entity
Inherits(entity, base, token) ==
  /\ entity.name = base.name
  /\ entity.prefix = base.prefix
  /\ entity.waedc = base.waedc
  /\ ~cq_regex(Scanned(token)).matched => entity.cq = base.cq
  /\ ~itu_regex(Scanned(token)).matched => entity.itu = base.itu
  /\ ~latlon_regex(Scanned(token)).matched =>
       (entity.lat = base.lat /\ entity.lon = base.lon)
  /\ ~continent_regex(Scanned(token)).matched => entity.continent = base.continent
  /\ ~timezone_regex(Scanned(token)).matched => entity.timezone = base.timezone

\* after an alias line that follows a primary record, each entry the line
\* made inherits from the nearest primary record before it
AliasesInheritNearestPrimary ==
  (pc = "loading" /\ lines # <<>> /\ ~IsPrimary(LastLine)
     /\ \E j \in 1..Len(lines) : IsPrimary(lines[j])) =>
    \A n \in 1..Len(Aliases(LastLine)) :
      (\A m \in (n + 1)..Len(Aliases(LastLine)) :
         InsertKey(Aliases(LastLine)[m]) # InsertKey(Aliases(LastLine)[n])) =>
        /\ InsertKey(Aliases(LastLine)[n]) \in DOMAIN cty
        /\ Inherits(cty[InsertKey(Aliases(LastLine)[n])], NearestPrimary,
                    Aliases(LastLine)[n])

\* a primary record replaces the base entity and leaves the entries under
\* other keys as they are
PrimaryKeepsOtherEntries ==
  (pc = "loading" /\ pc' = "loading" /\ lines' # lines /\ IsPrimary(lines'[Len(lines')])) =>
    /\ last_entity' = PrimaryEntity(MapTrim(Split(lines'[Len(lines')], ":"))).val
    /\ \A k \in DOMAIN cty :
         k # last_entity'.prefix => (k \in DOMAIN cty' /\ cty'[k] = cty[k])

\* C7: every entry made from an alias token carries, in the fields it does
\* not override, the values of the nearest primary record before its line;
\* a later primary record changes the base entity and leaves the entries
\* under other keys unchanged.
AliasInheritance == []AliasesInheritNearestPrimary /\ [][PrimaryKeepsOtherEntries]_vars

\* C7 witness: an alias entry made under the first primary record is still
\* the same after a second primary record with other values was read
AliasInheritanceWitness ==
  /\ pc = "loading"
  /\ Len(lines) = 3
  /\ IsPrimary(lines[1]) /\ ~IsPrimary(lines[2]) /\ IsPrimary(lines[3])
  /\ last_entity.name = <<"H">>
  /\ <<"H">> \in DOMAIN cty
  /\ cty[<<"H">>].name = <<"G">>
  /\ cty[<<"H">>].cq = U32(5)
  /\ last_entity.cq = U32(3)

====
